---- MODULE Spec2Model ----
(***************************************************************************)
(* Model of the `dev` tool: the encrypted-environment store (decrypt,      *)
(* checksum, editor, conditional re-encrypt), the replacing exec, and the  *)
(* command dispatch of src/src/main.rs and src/src/cli.rs.                 *)
(*                                                                         *)
(* One invocation of the tool is one process.  The files on disk (the      *)
(* backing encrypted file and the recipient file) outlive the process and  *)
(* are what the next invocation finds.                                     *)
(***************************************************************************)
EXTENDS Integers, Sequences, FiniteSets, TLC

\* ------------------------------------------------------------------ bounds
MaxLines == 2        \* lines of a plaintext environment file
MaxArgs == 2         \* arguments given to `dev run <command> [args]`
MaxChecks == 3       \* checks declared in commands.checks
MaxInvocations == 2  \* invocations of the tool in one behaviour
MaxKeys == 2         \* key lines typed at the prompt of `dev init`

\* ------------------------------------------------------------- plain data
\* toml::Value, as far as the environment files of the model use it.
VString(s) == [t |-> "string", s |-> s]
VInteger(n) == [t |-> "integer", n |-> n]
VBoolean(b) == [t |-> "boolean", b |-> b]
\* A nested table is a BTreeMap: its entries are kept in ascending key order.
VTable(entries) == [t |-> "table", entries |-> entries]

KV(k, v) == [key |-> k, val |-> v]

\* The text lines a plaintext file is made of: two well-formed
\* `key = value` lines and one line the TOML parser rejects.
LineSet == { "A = \"x\"", "B = 1", "oops" }

SeqsUpTo(S, n) == UNION { [1..k -> S] : k \in 0..n }

Contents == SeqsUpTo(LineSet, MaxLines)

\* Well-formed lines of every kind of value: a string with an escaped
\* newline, an integer, a boolean, an inline table written out of key order,
\* and a quoted key with an escaped newline.
RichLineSet ==
    { "A = \"x\\ny\"", "B = 1", "C = true", "T = { b = 2, a = 1 }", "\"K\\nL\" = 1" }

RichContents == SeqsUpTo(RichLineSet, MaxLines)

\* ------------------------------------------------------------------ files
NoFile == [kind |-> "none"]
Corrupt == [kind |-> "corrupt"]
TempFile(c) == [kind |-> "file", content |-> c]
KeysFile(keys) == [kind |-> "file", content |-> keys]
Armored(p, r, n) == [kind |-> "armored", plain |-> p, rcpts |-> r, nonce |-> n]

Me == "me"
Other == "other"

\* ----------------------------------------------------------------- results
NoResult == [none |-> TRUE]
NoHash == [none |-> TRUE]
NoCommand == [kind |-> "none"]
NoProcess == [program |-> "none", exec |-> "no"]
None == [some |-> FALSE]
Some(x) == [some |-> TRUE, v |-> x]
NoConfig == [commands |-> None]
Ok == [ok |-> TRUE]
SpawnError == [kind |-> "SpawnError"]
FailedError(status, stderr) == [kind |-> "FailedError", status |-> status, stderr |-> stderr]
Err(name, cause) == [err |-> name, cause |-> cause]
RunError(command, cause) == [err |-> "RunError", command |-> command, cause |-> cause]
ConfigMissing(setting) == [err |-> "ConfigMissing", setting |-> setting]
IsOk(r) == r = Ok
IsErr(r) == "err" \in DOMAIN r

\* What running an external command can come to: it cannot be started, or
\* it runs and exits with a status.
SpawnFailed == [o |-> "spawn_error"]
Exited(status) == [o |-> "exit", status |-> status]

\* ------------------------------------------------- external tools' contracts
\* git rev-parse --show-toplevel: fails outside a repository.
GitOutcomes == { SpawnFailed, Exited(0), Exited(128) }

\* age -d -i <identity> -o <scratch> -- <backing>: exits 0 only for an age
\* file that was encrypted to the identity; then the output is the plaintext.
AgeDecryptOutcomes(file, identity) ==
    { SpawnFailed, Exited(1) } \cup
    IF file.kind = "armored" /\ identity \in file.rcpts THEN { Exited(0) } ELSE {}

\* age -e -a -R <developers> -o <backing> -- <scratch>: exits 0 only when the
\* recipient file exists and names a recipient.
AgeEncryptOutcomes(recipients) ==
    { SpawnFailed, Exited(1) } \cup
    IF recipients.kind = "file" /\ recipients.content # <<>> THEN { Exited(0) } ELSE {}

\* Faulty variant of AgeEncrypt: age is handed another file than the scratch file.
AgeEncrypt_wrong_input(plain, recipients, n) ==
    Armored(<<>>, { recipients.content[i] : i \in DOMAIN recipients.content }, n)

\* The armored output of a successful age -e: the plaintext under the
\* recipients' keys, different on every run (fresh file key and nonce).
AgeEncrypt(plain, recipients, n) ==
    Armored(plain, { recipients.content[i] : i \in DOMAIN recipients.content }, n)

\* sha256sum -- <file>
ChecksumOutcomes == { SpawnFailed, Exited(0), Exited(1) }

\* SHA-256 of a content: a function of the content, without collisions.
Sha256(content) == [sha256 |-> content]

\* bash -c "$EDITOR -- '<path>'": bash exits with the editor's status, 127
\* when it cannot find the editor.
EditorOutcomes == { SpawnFailed, Exited(0), Exited(1), Exited(127) }

\* exec(2) either replaces the process image or returns an error.
ExecOutcomes == { "replaced", "failed" }

\* ------------------------------------------------------------ pure functions
\* The TOML reading of one text line of the model's alphabet.
toml_line(line) ==
    CASE line = "A = \"x\"" -> Some(KV("A", VString("x")))
      [] line = "B = 1" -> Some(KV("B", VInteger(1)))
      [] line = "A = \"x\\ny\"" -> Some(KV("A", VString("x\ny")))
      [] line = "C = true" -> Some(KV("C", VBoolean(TRUE)))
      [] line = "T = { b = 2, a = 1 }" ->
            Some(KV("T", VTable(<< KV("a", VInteger(1)), KV("b", VInteger(2)) >>)))
      [] line = "\"K\\nL\" = 1" -> Some(KV("K\nL", VInteger(1)))
      [] OTHER -> None

\* Faulty variant of toml_from_str: lines that cannot be read are skipped.
toml_from_str_lenient(content) ==
    [ok |-> TRUE,
     map |-> { toml_line(content[i]).v :
                 i \in { j \in DOMAIN content : toml_line(content[j]).some } }]

\* toml::from_str: a mapping, or an error on a malformed line or on a key
\* defined twice.
toml_from_str(content) ==
    IF \/ \E i \in DOMAIN content : ~toml_line(content[i]).some
       \/ \E i, j \in DOMAIN content :
             i # j /\ toml_line(content[i]).v.key = toml_line(content[j]).v.key
    THEN [err |-> "ConfigParseError", cause |-> [kind |-> "toml::de::Error"]]
    ELSE [ok |-> TRUE, map |-> { toml_line(content[i]).v : i \in DOMAIN content }]

\* get_repo_path: the result of the git lookup.
get_repo_path(outcome) ==
    IF outcome = SpawnFailed THEN Err("GitError", SpawnError)
    ELSE IF outcome.status # 0 THEN Err("GitError", FailedError(outcome.status, "Some"))
    ELSE Ok

\* decrypt: the result of the age -d run.
decrypt_result(outcome) ==
    IF outcome = SpawnFailed THEN Err("AgeDecryptError", SpawnError)
    ELSE IF outcome.status # 0
    THEN Err("AgeDecryptError", FailedError(outcome.status, "Some"))
    ELSE Ok

\* encrypt: the result of the age -e run.
encrypt_result(outcome) ==
    IF outcome = SpawnFailed THEN Err("AgeEncryptError", SpawnError)
    ELSE IF outcome.status # 0
    THEN Err("AgeEncryptError", FailedError(outcome.status, "Some"))
    ELSE Ok

\* Faulty variant of calculate_checksum: the exit status of sha256sum is not
\* looked at.
calculate_checksum_unchecked(outcome, file) ==
    IF outcome = SpawnFailed THEN Err("ChecksumError", SpawnError)
    ELSE [ok |-> TRUE, hash |-> Sha256(file.content)]

\* calculate_checksum: the digest printed by sha256sum, or ChecksumError.
calculate_checksum(outcome, file) ==
    IF outcome = SpawnFailed THEN Err("ChecksumError", SpawnError)
    ELSE IF outcome.status # 0
    THEN Err("ChecksumError", FailedError(outcome.status, "Some"))
    ELSE [ok |-> TRUE, hash |-> Sha256(file.content)]

\* Faulty variant of run_editor_result: the exit status is not looked at.
run_editor_result_unchecked(outcome) ==
    IF outcome = SpawnFailed THEN Err("EditorError", SpawnError) ELSE Ok

\* run_editor: the result of the bash -c "<editor> -- '<path>'" run.
run_editor_result(outcome) ==
    IF outcome = SpawnFailed THEN Err("EditorError", SpawnError)
    ELSE IF outcome.status # 0
    THEN Err("EditorError", FailedError(outcome.status, "None"))
    ELSE Ok

\* Faulty variant of drop: the file is kept on disk (persisted) by its owner.
drop_keep(file) == file

\* NamedTempFile's Drop: the file is removed when its owner goes out of scope.
drop(file) == NoFile

\* integer Display: decimal digits.
Digit(d) ==
    CASE d = 0 -> "0" [] d = 1 -> "1" [] d = 2 -> "2" [] d = 3 -> "3" [] d = 4 -> "4"
      [] d = 5 -> "5" [] d = 6 -> "6" [] d = 7 -> "7" [] d = 8 -> "8" [] d = 9 -> "9"

RECURSIVE ToDecimal(_)
ToDecimal(n) ==
    IF n < 0 THEN "-" \o ToDecimal(-n)
    ELSE IF n < 10 THEN Digit(n)
    ELSE ToDecimal(n \div 10) \o Digit(n % 10)

\* The escaping of a string between double quotes, the same in TOML basic
\* strings and in JSON for the characters of the model: a newline is written
\* as backslash n, a quote and a backslash get a backslash.
RECURSIVE escape(_)
escape(str) ==
    IF Len(str) = 0 THEN ""
    ELSE (CASE SubSeq(str, 1, 1) = "\n" -> "\\n"
            [] SubSeq(str, 1, 1) = "\"" -> "\\\""
            [] SubSeq(str, 1, 1) = "\\" -> "\\\\"
            [] OTHER -> SubSeq(str, 1, 1))
         \o escape(SubSeq(str, 2, Len(str)))

\* toml::Value::to_string(): the value in TOML syntax, a table as an inline
\* table.
RECURSIVE to_string(_)
to_string(value) ==
    CASE value.t = "string" -> "\"" \o escape(value.s) \o "\""
      [] value.t = "integer" -> ToDecimal(value.n)
      [] value.t = "boolean" -> (IF value.b THEN "true" ELSE "false")
      [] value.t = "table" ->
            LET RECURSIVE items(_)
                items(i) ==
                    IF i > Len(value.entries) THEN ""
                    ELSE (IF i > 1 THEN ", " ELSE "")
                         \o value.entries[i].key \o " = " \o to_string(value.entries[i].val)
                         \o items(i + 1)
            IN IF value.entries = <<>> THEN "{}" ELSE "{ " \o items(1) \o " }"

\* serde_json::to_string(&value): compact JSON.
RECURSIVE json_to_string(_)
json_to_string(value) ==
    CASE value.t = "string" -> "\"" \o escape(value.s) \o "\""
      [] value.t = "integer" -> ToDecimal(value.n)
      [] value.t = "boolean" -> (IF value.b THEN "true" ELSE "false")
      [] value.t = "table" ->
            LET RECURSIVE items(_)
                items(i) ==
                    IF i > Len(value.entries) THEN ""
                    ELSE (IF i > 1 THEN "," ELSE "")
                         \o "\"" \o escape(value.entries[i].key) \o "\":"
                         \o json_to_string(value.entries[i].val)
                         \o items(i + 1)
            IN "{" \o items(1) \o "}"

\* str::replace("\n", " ")
RECURSIVE replace_newline(_)
replace_newline(str) ==
    IF Len(str) = 0 THEN ""
    ELSE (IF SubSeq(str, 1, 1) = "\n" THEN " " ELSE SubSeq(str, 1, 1))
         \o replace_newline(SubSeq(str, 2, Len(str)))

\* The environment the tool itself was started with.
Environ == { [name |-> "HOME", value |-> "/home/me"], [name |-> "A", value |-> "inherited"] }

\* run_command, lines 121-126: the string a variable gets in the child.
env_value(value) == IF value.t = "string" THEN value.s ELSE to_string(value)

\* Faulty variant of child_env: an inherited variable wins over the mapping.
child_env_inherited_wins(map) ==
    Environ \cup
    { e \in { [name |-> kv.key, value |-> env_value(kv.val)] : kv \in map } :
        \A i \in Environ : i.name # e.name }

\* Command::env over the inherited environment.
child_env(map) ==
    { e \in Environ : \A kv \in map : kv.key # e.name } \cup
    { [name |-> kv.key, value |-> env_value(kv.val)] : kv \in map }

\* Command::new(command) with its args; the environment is set before exec.
Command(program, args) == [program |-> program, args |-> args, env |-> {}, exec |-> "no"]

\* The orders in which a HashMap may hand out its entries.
Orders(map) ==
    { o \in [1..Cardinality(map) -> map] : \A i, j \in DOMAIN o : i # j => o[i] # o[j] }

\* export, Raw: the decrypted text as it is.
format_raw(content) == content

\* serde_json's pretty printer: the lines of a map whose entries are handed
\* out in the order `entries`, and of a value; nested lines are indented by
\* two more spaces.
RECURSIVE json_pretty_map(_, _)
RECURSIVE json_pretty_value(_, _)
json_pretty_map(entries, ind) ==
    LET member(i) ==
            LET ls == json_pretty_value(entries[i].val, ind \o "  ")
                keyed == << ind \o "  \"" \o escape(entries[i].key) \o "\": " \o ls[1] >>
                         \o Tail(ls)
            IN [k \in DOMAIN keyed |->
                    IF k = Len(keyed) /\ i < Len(entries) THEN keyed[k] \o "," ELSE keyed[k]]
        RECURSIVE members(_)
        members(i) == IF i > Len(entries) THEN <<>> ELSE member(i) \o members(i + 1)
    IN IF entries = <<>> THEN << "{}" >>
       ELSE << "{" >> \o members(1) \o << ind \o "}" >>

json_pretty_value(value, ind) ==
    IF value.t = "table" THEN json_pretty_map(value.entries, ind)
    ELSE << json_to_string(value) >>

\* export, Json: the mapping pretty-printed, its entries in `order`.
format_json(order) == json_pretty_map(order, "")

\* export, Docker: one KEY=value line per entry of `order`.
format_docker(order) ==
    [i \in DOMAIN order |->
        order[i].key \o "=" \o
        replace_newline(IF order[i].val.t = "string" THEN order[i].val.s
                        ELSE json_to_string(order[i].val))]

VARIABLES
    pc,          \* position of the running process
    cmd,         \* the parsed command line of the invocation
    backing,     \* <repo>/.dev/env.age.<environment>
    developers,  \* <repo>/.dev/developers
    scratch,     \* the NamedTempFile holding plaintext
    old_hash,    \* edit(): digest before the editor
    new_hash,    \* edit(): digest after the editor
    values_map,  \* values(): the parsed variable mapping
    spawned,     \* the subprocesses run so far: command line and outcome
    result,      \* what Commands::run / Cli::run returned
    process,     \* the process image exec'd in place of the tool
    config,      \* .dev/config.toml as loaded by the invocation
    check_i,     \* CheckCommand::run: index of the next check
    stdout,      \* what the invocation wrote to standard output
    stderr_lines, \* what the tool itself wrote to standard error
    exit_code,   \* exit status of the tool's own process
    inv,         \* invocations started
    nonce,       \* encryptions performed (age output is randomised)
    backing0,    \* history: the backing file when the invocation started
    scratch0,    \* history: the scratch file when the editor was launched
    scratch1     \* history: the scratch file when the editor returned

vars == << pc, cmd, backing, developers, scratch, old_hash, new_hash,
           values_map, spawned, result, process, config, check_i, stdout, stderr_lines,
           exit_code, inv, nonce, backing0, scratch0, scratch1 >>

\* ------------------------------------------------------------------- Init
\* The files an invocation may find: no backing file, a damaged one, or an
\* age file of any content encrypted to the caller or to somebody else; the
\* recipient file absent, empty, or naming the caller, another developer or
\* both.
BackingInit ==
    { NoFile, Corrupt } \cup
    { Armored(p, r, 0) : p \in Contents, r \in { {Me}, {Other} } }

DevelopersInit ==
    { NoFile, KeysFile(<<>>), KeysFile(<<Me>>), KeysFile(<<Other>>), KeysFile(<<Me, Other>>) }

Init ==
    /\ pc = "idle"
    /\ cmd = NoCommand
    /\ backing \in BackingInit
    /\ developers \in DevelopersInit
    /\ scratch = NoFile
    /\ old_hash = NoHash
    /\ new_hash = NoHash
    /\ values_map = {}
    /\ spawned = <<>>
    /\ result = NoResult
    /\ process = NoProcess
    /\ config = NoConfig
    /\ check_i = 0
    /\ stdout = <<>>
    /\ stderr_lines = <<>>
    /\ exit_code = -1
    /\ inv = 0
    /\ nonce = 0
    /\ backing0 = backing
    /\ scratch0 = NoFile
    /\ scratch1 = NoFile

\* ----------------------------------------------------------------- helpers
\* A function returns to main with `r`; the scratch file it owns is dropped.
Return(r) ==
    /\ pc' = "returned"
    /\ result' = r
    /\ scratch' = drop(scratch)

\* A subprocess is run: its command line and what it came to are logged.
Run(argv, outcome) == [argv |-> argv, outcome |-> outcome]
Spawn(argv, outcome) == spawned' = Append(spawned, Run(argv, outcome))

\* A new process starts from a clean slate; the files stay as they are.
Fresh(c, p) ==
    /\ pc \in { "idle", "exited", "replaced" }
    /\ inv < MaxInvocations
    /\ inv' = inv + 1
    /\ cmd' = c
    /\ process' = p
    /\ scratch' = NoFile
    /\ old_hash' = NoHash
    /\ new_hash' = NoHash
    /\ values_map' = {}
    /\ spawned' = <<>>
    /\ result' = NoResult
    /\ config' = NoConfig
    /\ check_i' = 0
    /\ stdout' = <<>>
    /\ stderr_lines' = <<>>
    /\ exit_code' = -1
    /\ backing0' = backing
    /\ scratch0' = NoFile
    /\ scratch1' = NoFile
    /\ UNCHANGED << backing, developers, nonce >>

\* Faulty variant of AfterDecrypt: edit goes to the editor without the first
\* checksum.
AfterDecrypt_no_checksum(c) ==
    CASE c.kind = "edit" -> "editor"
      [] c.kind = "export" /\ c.format = "raw" -> "export_raw"
      [] OTHER -> "values"

\* Where decrypt's caller goes on with the scratch file.
AfterDecrypt(c) ==
    CASE c.kind = "edit" -> "checksum_before"
      [] c.kind = "export" /\ c.format = "raw" -> "export_raw"
      [] OTHER -> "values"

\* Where values' caller goes on with the mapping.
AfterValues(c) == IF c.kind = "export" THEN "export_values" ELSE "exec"

\* ------------------------------------------------- src/src/main.rs: dispatch
RunArgs == SeqsUpTo({ "x", "y" }, MaxArgs)

MainCommands ==
    { [kind |-> "run", command |-> "prog", args |-> a] : a \in RunArgs } \cup
    { [kind |-> "start"] } \cup
    { [kind |-> "export", format |-> f] : f \in { "raw", "json", "docker" } } \cup
    { [kind |-> "edit"] }

\* The Command run_command builds for `c`, before anything else is done.
run_command_process(c) ==
    CASE c.kind = "run" -> Command(c.command, c.args)
      [] c.kind = "start" -> Command("nix", << "run", ".#dev.start" >>)
      [] OTHER -> NoProcess

\* main: Cli::parse, then Commands::run down to from_env.
main ==
    \E c \in MainCommands :
        /\ Fresh(c, run_command_process(c))
        /\ pc' = "from_env"

\* EnvironmentConfig::from_env: the repository lookup by git.
from_env ==
    /\ pc = "from_env"
    /\ \E o \in GitOutcomes :
        /\ Spawn(<< "git", "rev-parse", "--show-toplevel" >>, o)
        /\ IF IsOk(get_repo_path(o))
           THEN /\ pc' = "decrypt"
                /\ UNCHANGED << result, scratch >>
           ELSE Return(get_repo_path(o))
    /\ UNCHANGED << cmd, backing, developers, old_hash, new_hash, values_map, process,
                    config, check_i, stdout, stderr_lines, exit_code, inv, nonce, backing0, scratch0, scratch1 >>

\* ------------------------------------------- EnvironmentConfig (main.rs)
\* Faulty variant of exists: the check for the backing file is lost.
exists_always(file) == TRUE

\* std::fs::exists
exists(file) == file.kind # "none"

\* Faulty variant of decrypt_input: the two paths are swapped, and age
\* writes over the backing file.
decrypt_input_overwritten(file) == Corrupt

\* decrypt, lines 254-259: the backing file is the input of age -d (after
\* `--`) and the scratch file its output (-o); the input is left as it is.
decrypt_input(file) == file

\* decrypt: a fresh scratch file, filled by age -d when the backing file
\* exists.
decrypt ==
    /\ pc = "decrypt"
    /\ IF ~exists(backing)
       THEN /\ scratch' = TempFile(<<>>)
            /\ pc' = AfterDecrypt(cmd)
            /\ UNCHANGED << spawned, result, backing >>
       ELSE \E o \in AgeDecryptOutcomes(backing, Me) :
            /\ Spawn(<< "age", "-d" >>, o)
            /\ backing' = decrypt_input(backing)
            /\ IF IsOk(decrypt_result(o))
               THEN /\ scratch' = TempFile(backing.plain)
                    /\ pc' = AfterDecrypt(cmd)
                    /\ UNCHANGED result
               ELSE /\ pc' = "returned"
                    /\ result' = decrypt_result(o)
                    /\ scratch' = drop(TempFile(<<>>))
    /\ UNCHANGED << cmd, developers, old_hash, new_hash, values_map, process,
                    config, check_i, stdout, stderr_lines, exit_code, inv, nonce, backing0, scratch0, scratch1 >>

\* values, after decrypt: read the scratch file (which read_to_string takes
\* and drops) and parse it.
values ==
    /\ pc = "values"
    /\ LET r == toml_from_str(scratch.content) IN
        IF IsErr(r)
        THEN /\ Return(r)
             /\ UNCHANGED values_map
        ELSE /\ values_map' = r.map
             /\ scratch' = drop(scratch)
             /\ pc' = AfterValues(cmd)
             /\ UNCHANGED result
    /\ UNCHANGED << cmd, backing, developers, old_hash, new_hash, spawned, process,
                    config, check_i, stdout, stderr_lines, exit_code, inv, nonce, backing0, scratch0, scratch1 >>

\* Faulty variant of run_error_command: the arguments are left out.
run_error_command_program(command, args) == << command >>

\* run_command, lines 130-134: the command line a RunError names.
run_error_command(command, args) == << command >> \o args

\* run_command, lines 121-136: set the variables on the Command and exec it.
run_command ==
    /\ pc = "exec"
    /\ \E o \in ExecOutcomes :
        /\ process' = [process EXCEPT !.env = child_env(values_map), !.exec = o]
        /\ IF o = "replaced"
           THEN /\ pc' = "replaced"
                /\ UNCHANGED << result, scratch >>
           ELSE Return(RunError(run_error_command(process.program, process.args),
                                SpawnError))
    /\ UNCHANGED << cmd, backing, developers, old_hash, new_hash, values_map, spawned,
                    config, check_i, stdout, stderr_lines, exit_code, inv, nonce, backing0, scratch0, scratch1 >>

\* export_command, Raw: copy the scratch file to standard output.
export_raw ==
    /\ pc = "export_raw"
    /\ stdout' = format_raw(scratch.content)
    /\ Return(Ok)
    /\ UNCHANGED << stderr_lines, cmd, backing, developers, old_hash, new_hash, values_map, spawned,
                    process, config, check_i, exit_code, inv, nonce, backing0, scratch0, scratch1 >>

\* export_command, Json and Docker: print the mapping.
export_values ==
    /\ pc = "export_values"
    /\ \E order \in Orders(values_map) :
        stdout' = IF cmd.format = "json" THEN format_json(order) ELSE format_docker(order)
    /\ Return(Ok)
    /\ UNCHANGED << stderr_lines, cmd, backing, developers, old_hash, new_hash, values_map, spawned,
                    process, config, check_i, exit_code, inv, nonce, backing0, scratch0, scratch1 >>

\* edit, line 335: the digest of the decrypted content.
checksum_before ==
    /\ pc = "checksum_before"
    /\ \E o \in ChecksumOutcomes :
        /\ Spawn(<< "sha256sum", "--" >>, o)
        /\ LET r == calculate_checksum(o, scratch) IN
            IF IsErr(r)
            THEN /\ Return(r)
                 /\ UNCHANGED old_hash
            ELSE /\ old_hash' = r.hash
                 /\ pc' = "editor"
                 /\ UNCHANGED << result, scratch >>
    /\ UNCHANGED << cmd, backing, developers, new_hash, values_map, process, config,
                    check_i, stdout, stderr_lines, exit_code, inv, nonce, backing0, scratch0, scratch1 >>

\* edit, line 337: run_editor.  An editor that ran may have written anything
\* to the scratch file, whatever its exit status.
run_editor ==
    /\ pc = "editor"
    /\ scratch0' = scratch
    /\ \E o \in EditorOutcomes, c \in Contents :
        /\ Spawn(<< "bash", "-c", "$EDITOR -- '<path>'" >>, o)
        /\ LET edited == IF o = SpawnFailed THEN scratch ELSE TempFile(c) IN
            /\ scratch1' = edited
            /\ IF IsOk(run_editor_result(o))
               THEN /\ scratch' = edited
                    /\ pc' = "checksum_after"
                    /\ UNCHANGED result
               ELSE /\ pc' = "returned"
                    /\ result' = run_editor_result(o)
                    /\ scratch' = drop(edited)
    /\ UNCHANGED << cmd, backing, developers, old_hash, new_hash, values_map, process,
                    config, check_i, stdout, stderr_lines, exit_code, inv, nonce, backing0 >>

\* Faulty variants of edit_changed: encrypt whatever the digests, and never.
edit_changed_always(old, new) == TRUE
edit_changed_never(old, new) == FALSE

\* Faulty variant of edit_changed: the comparison is inverted.
edit_changed_inverted(old, new) == old = new

\* edit, line 344: encrypt only when the digests differ.
edit_changed(old, new) == old # new

\* edit, lines 339-348: the digest after the editor, and the decision.
checksum_after ==
    /\ pc = "checksum_after"
    /\ \E o \in ChecksumOutcomes :
        /\ Spawn(<< "sha256sum", "--" >>, o)
        /\ LET r == calculate_checksum(o, scratch) IN
            IF IsErr(r)
            THEN /\ Return(r)
                 /\ UNCHANGED new_hash
            ELSE /\ new_hash' = r.hash
                 /\ IF edit_changed(old_hash, r.hash)
                    THEN /\ pc' = "encrypt"
                         /\ UNCHANGED << result, scratch >>
                    ELSE Return(Ok)
    /\ UNCHANGED << cmd, backing, developers, old_hash, values_map, process, config,
                    check_i, stdout, stderr_lines, exit_code, inv, nonce, backing0, scratch0, scratch1 >>

\* What a run of age -e leaves at the backing path: the new armored file on
\* success; on failure the old file, or a damaged one when age had begun to
\* write.
encrypt_output(o, old, plain, recipients, n) ==
    IF o = Exited(0) THEN { AgeEncrypt(plain, recipients, n) }
    ELSE IF o = SpawnFailed THEN { old }
    ELSE { old, Corrupt }

\* encrypt: age -e -a -R <developers> -o <backing> -- <scratch>.
encrypt ==
    /\ pc = "encrypt"
    /\ \E o \in AgeEncryptOutcomes(developers) :
        /\ Spawn(<< "age", "-e", "-a" >>, o)
        /\ backing' \in encrypt_output(o, backing, scratch.content, developers, nonce + 1)
        /\ nonce' = IF o = Exited(0) THEN nonce + 1 ELSE nonce
        /\ Return(encrypt_result(o))
    /\ UNCHANGED << cmd, developers, old_hash, new_hash, values_map, process, config,
                    check_i, stdout, stderr_lines, exit_code, inv, backing0, scratch0, scratch1 >>

\* main, lines 364-365: eprintln!("{}: {}", arg0, e), the one report of an
\* error.
main_report(r) == IF IsErr(r) THEN << [report |-> r] >> ELSE <<>>

\* Faulty variant of main_status: the process exits with 0 whatever happened.
main_status_zero(r) == 0

\* main, lines 363-367: exit(1) after an error, else the status of a main
\* that returned.
main_status(r) == IF IsErr(r) THEN 1 ELSE 0

\* main, lines 363-367: a failure is printed and the process exits with 1.
main_exit ==
    /\ pc = "returned"
    /\ pc' = "exited"
    /\ stderr_lines' = stderr_lines \o main_report(result)
    /\ exit_code' = main_status(result)
    /\ UNCHANGED << cmd, backing, developers, scratch, old_hash, new_hash, values_map,
                    spawned, result, process, config, check_i, stdout, inv, nonce,
                    backing0, scratch0, scratch1 >>

\* ------------------------------------------------------------ specification
\* The program of src/src/main.rs.
Next ==
    \/ main
    \/ from_env
    \/ decrypt
    \/ values
    \/ run_command
    \/ export_raw
    \/ export_values
    \/ checksum_before
    \/ run_editor
    \/ checksum_after
    \/ encrypt
    \/ main_exit

Spec == Init /\ [][Next]_vars

\* The same program started on environment files that hold every kind of
\* value (RichLineSet), encrypted to the caller.
InitRich ==
    /\ pc = "idle"
    /\ cmd = NoCommand
    /\ backing \in { Armored(p, {Me}, 0) : p \in RichContents }
    /\ developers = KeysFile(<< Me >>)
    /\ scratch = NoFile
    /\ old_hash = NoHash
    /\ new_hash = NoHash
    /\ values_map = {}
    /\ spawned = <<>>
    /\ result = NoResult
    /\ process = NoProcess
    /\ config = NoConfig
    /\ check_i = 0
    /\ stdout = <<>>
    /\ stderr_lines = <<>>
    /\ exit_code = -1
    /\ inv = 0
    /\ nonce = 0
    /\ backing0 = backing
    /\ scratch0 = NoFile
    /\ scratch1 = NoFile

SpecRich == InitRich /\ [][Next]_vars

\* -------------------------------------------------- src/src/cli.rs: dispatch
\* The checks a project may declare, in declaration order: every list of
\* distinct checks with at most MaxChecks entries.
CheckSet ==
    { [name |-> "fmt", expr |-> "cargo fmt --check"],
      [name |-> "lint", expr |-> "cargo clippy"],
      [name |-> "test", expr |-> "cargo test"] }

CheckLists ==
    { l \in SeqsUpTo(CheckSet, MaxChecks) : \A i, j \in DOMAIN l : i # j => l[i] # l[j] }

\* .dev/config.toml: no commands section, or one with any of start, shell
\* and checks.
Configs ==
    { [commands |-> None] } \cup
    { [commands |-> Some([start |-> st, shell |-> sh, checks |-> ch])] :
        st \in { None, Some("cargo run") },
        sh \in { None, Some("nix develop -c \"$@\"") },
        ch \in { None } \cup { Some(l) : l \in CheckLists } }

\* The non-empty lines typed at the prompt of `dev init` before the blank
\* line that ends them.
KeyInputs == SeqsUpTo({ Me, Other }, MaxKeys)

\* The command lines given to the cli.rs program, `dev init` together with
\* what is typed on its standard input.  `dev config edit` is left to the
\* main.rs program: cli.rs only forwards it to Environment::edit.
CliCommands ==
    { [kind |-> "run", command |-> "prog", args |-> a] : a \in RunArgs } \cup
    { [kind |-> "start"], [kind |-> "check"] } \cup
    { [kind |-> "init", stdin |-> k] : k \in KeyInputs } \cup
    { [kind |-> "export", format |-> f] : f \in { "raw", "json", "docker" } }

\* The process starts: Cli::parse, then Cli::run, which begins with Repo::new.
cli_main ==
    \E c \in CliCommands :
        /\ Fresh(c, NoProcess)
        /\ pc' = "Repo_new"

\* Commands::run and ConfigCommands::run: the handler of a subcommand.
Commands_run(c) ==
    CASE c.kind = "run" -> "RunCommand"
      [] c.kind = "start" -> "StartCommand"
      [] c.kind = "check" -> "CheckCommand"
      [] c.kind = "init" -> "InitCommand"
      [] OTHER -> "decrypt"

\* Repo::new: the repository lookup by git, then the project's config file.
\* On success Cli::run hands over to the subcommand.
Repo_new ==
    /\ pc = "Repo_new"
    /\ \E o \in GitOutcomes :
        /\ Spawn(<< "git", "rev-parse", "--show-toplevel" >>, o)
        /\ IF IsOk(get_repo_path(o))
           THEN /\ config' \in Configs
                /\ pc' = Commands_run(cmd)
                /\ UNCHANGED << result, scratch >>
           ELSE /\ Return(get_repo_path(o))
                /\ UNCHANGED config
    /\ UNCHANGED << cmd, backing, developers, old_hash, new_hash, values_map, process,
                    check_i, stdout, stderr_lines, exit_code, inv, nonce, backing0, scratch0, scratch1 >>

\* Faulty variant of RunCommand_process: the declared shell is ignored.
RunCommand_process_direct(cfg, c) == Command(c.command, c.args)

\* RunCommand::run, lines 77-89: what is exec'd for `dev run <command> [args]`.
RunCommand_process(cfg, c) ==
    IF cfg.commands.some /\ cfg.commands.v.shell.some
    THEN Command("bash", << "-ce", cfg.commands.v.shell.v, "--", c.command >> \o c.args)
    ELSE Command(c.command, c.args)

\* RunCommand::run: build the command line and hand it to Environment::exec.
RunCommand_run ==
    /\ pc = "RunCommand"
    /\ process' = RunCommand_process(config, cmd)
    /\ pc' = "decrypt"
    /\ UNCHANGED << cmd, backing, developers, scratch, old_hash, new_hash, values_map,
                    spawned, result, config, check_i, stdout, stderr_lines, exit_code, inv, nonce,
                    backing0, scratch0, scratch1 >>

\* Faulty variant of StartCommand_start: a default start expression when none is
\* declared.
StartCommand_start_default(cfg) ==
    IF cfg.commands.some /\ cfg.commands.v.start.some
    THEN cfg.commands.v.start
    ELSE Some("nix run .#dev.start")

\* StartCommand::run, lines 99-104: the declared start expression, if any.
StartCommand_start(cfg) ==
    IF cfg.commands.some /\ cfg.commands.v.start.some THEN cfg.commands.v.start ELSE None

\* StartCommand::run: exec bash -ce <start>, or ConfigMissing.
StartCommand_run ==
    /\ pc = "StartCommand"
    /\ LET start == StartCommand_start(config) IN
        IF start.some
        THEN /\ process' = Command("bash", << "-ce", start.v >>)
             /\ pc' = "decrypt"
             /\ UNCHANGED << result, scratch >>
        ELSE /\ Return(ConfigMissing("commands.start"))
             /\ UNCHANGED process
    /\ UNCHANGED << cmd, backing, developers, old_hash, new_hash, values_map, spawned,
                    config, check_i, stdout, stderr_lines, exit_code, inv, nonce, backing0, scratch0, scratch1 >>

\* CheckCommand::run, lines 114-115: the declared checks, if any.
CheckCommand_checks(cfg) ==
    IF cfg.commands.some /\ cfg.commands.v.checks.some THEN cfg.commands.v.checks ELSE None

\* CheckCommand::run, lines 114-115 and 137: enter the loop, or ConfigMissing.
CheckCommand_run ==
    /\ pc = "CheckCommand"
    /\ IF CheckCommand_checks(config).some
       THEN /\ check_i' = 1
            /\ pc' = "check_loop"
            /\ UNCHANGED << result, scratch >>
       ELSE /\ Return(ConfigMissing("commands.checks"))
            /\ UNCHANGED check_i
    /\ UNCHANGED << cmd, backing, developers, old_hash, new_hash, values_map, spawned,
                    process, config, stdout, stderr_lines, exit_code, inv, nonce, backing0, scratch0, scratch1 >>

\* Faulty variant of check_command: the shell is not told to stop at the
\* first failing command of the expression.
check_command_c(check) == << "bash", "-c", check >>

\* CheckCommand::run, lines 118-120: the command of one check.
check_command(check) == << "bash", "-ce", check >>

\* bash -ce <check>
CheckOutcomes == { SpawnFailed, Exited(0), Exited(1) }

\* Faulty variant of check_result: the status of the check is not looked at.
check_result_unchecked(outcome, check) == Ok

\* CheckCommand::run, lines 122-131: the result of one check.
check_result(outcome, check) ==
    IF outcome = SpawnFailed THEN RunError(<< "bash", "-ce", check >>, SpawnError)
    ELSE IF outcome.status # 0
    THEN RunError(<< "bash", "-ce", check >>, FailedError(outcome.status, "None"))
    ELSE Ok

\* CheckCommand::run, lines 116-134: one turn of the loop over the checks,
\* or its end.
check_loop ==
    /\ pc = "check_loop"
    /\ LET checks == CheckCommand_checks(config).v IN
        IF check_i > Len(checks)
        THEN /\ stderr_lines' = Append(stderr_lines, [passed |-> "All checks passed!"])
             /\ Return(Ok)
             /\ UNCHANGED << check_i, spawned >>
        ELSE \E o \in CheckOutcomes :
             /\ stderr_lines' = Append(stderr_lines, [running |-> checks[check_i].name])
             /\ Spawn(check_command(checks[check_i].expr), o)
             /\ IF IsOk(check_result(o, checks[check_i].expr))
                THEN /\ check_i' = check_i + 1
                     /\ UNCHANGED << pc, result, scratch >>
                ELSE /\ Return(check_result(o, checks[check_i].expr))
                     /\ UNCHANGED check_i
    /\ UNCHANGED << cmd, backing, developers, old_hash, new_hash, values_map, process,
                    config, stdout, exit_code, inv, nonce, backing0, scratch0, scratch1 >>

\* InitCommand::multi_line_prompt: the lines read up to the first blank one,
\* and the prompts printed for them.
multi_line_prompt(input) == input
prompts(input) == [i \in 1..(Len(input) + 1) |-> "> "]

\* InitCommand::write_lines: File::create (which truncates a file that
\* exists), then one writeln! per line.
write_lines(output, lines) == KeysFile(lines)

\* InitCommand::run: the setup dialogue, then the recipient file is written.
InitCommand_run ==
    /\ pc = "InitCommand"
    /\ LET keys == multi_line_prompt(cmd.stdin) IN
        /\ stdout' = << "Welcome to the dev setup process", "",
                        "Enter the ssh keys of all developers ...",
                        "on their own lines. ..." >> \o prompts(cmd.stdin)
        /\ developers' = write_lines(developers, keys)
    /\ Return(Ok)
    /\ UNCHANGED << cmd, backing, old_hash, new_hash, values_map, spawned, process, config,
                    check_i, stderr_lines, exit_code, inv, nonce, backing0, scratch0, scratch1 >>

\* The files the invocations of the cli.rs program start from.
InitCli ==
    /\ Init
    /\ backing \in { NoFile,
                     Armored(<< "A = \"x\"", "B = 1" >>, {Me}, 0),
                     Armored(<< "oops" >>, {Me}, 0) }
    /\ developers \in { NoFile, KeysFile(<< Me >>) }

\* The program of src/src/cli.rs over the environment store of main.rs.
NextCli ==
    \/ cli_main
    \/ Repo_new
    \/ RunCommand_run
    \/ StartCommand_run
    \/ CheckCommand_run
    \/ check_loop
    \/ InitCommand_run
    \/ decrypt
    \/ values
    \/ run_command
    \/ export_raw
    \/ export_values
    \/ main_exit

SpecCli == InitCli /\ [][NextCli]_vars

\* ------------------------------------------------------------- observations
\* The runs of a tool among the subprocesses of the invocation.
Runs(argv) == { i \in DOMAIN spawned : spawned[i].argv = argv }
GitRun == << "git", "rev-parse", "--show-toplevel" >>
DecryptRun == << "age", "-d" >>
EncryptRun == << "age", "-e", "-a" >>
ChecksumRun == << "sha256sum", "--" >>
EditorRun == << "bash", "-c", "$EDITOR -- '<path>'" >>

Succeeded(argv) == \E i \in Runs(argv) : spawned[i].outcome = Exited(0)

\* The editor was launched and has returned.
EditorReturned == cmd.kind = "edit" /\ Runs(EditorRun) # {}

\* What a decrypt of `file` by `identity` yields when age can decrypt it.
decrypt_yields(file, identity) ==
    IF Exited(0) \in AgeDecryptOutcomes(file, identity) THEN Some(file.plain) ELSE None

\* The recipients named by the recipient file.
Recipients == IF developers.kind = "file"
              THEN { developers.content[i] : i \in DOMAIN developers.content }
              ELSE {}

\* ------------------------------------------------------------------ claims
\* C1: in an edit whose scratch content after the editor returned equals the
\* content before the editor was launched, the encryption tool is never run
\* and the backing file is what it was when the edit began.
C1_IdempotentEdit ==
    (EditorReturned /\ scratch1 = scratch0)
        => (Runs(EncryptRun) = {} /\ backing = backing0)

\* C1 witness: an edit of an existing environment ended in success with the
\* content left as it was.
C1_Witness ==
    /\ pc = "exited"
    /\ EditorReturned
    /\ scratch1 = scratch0
    /\ result = Ok
    /\ backing0.kind = "armored"
    /\ backing0.plain # <<>>

\* C2 as stated: in an edit in which the editor exits successfully and the
\* content differs, encrypt is run, the backing file is overwritten and a
\* decrypt of it yields the edited content.
C2_Original ==
    (pc = "exited" /\ EditorReturned /\ Succeeded(EditorRun) /\ scratch1 # scratch0)
        => /\ Runs(EncryptRun) # {}
           /\ backing # backing0
           /\ decrypt_yields(backing, Me) = Some(scratch1.content)

\* C2 amended: in an edit in which the editor exits successfully, the digest
\* after the editor is computed and the content differs, encrypt is run once,
\* after the second checksum; when encrypt succeeds the backing file is
\* overwritten by the encryption of the edited content to the recipient set,
\* and a decrypt by a recipient yields the edited content.
C2_ChangedContentEdit ==
    (pc = "exited" /\ EditorReturned /\ Succeeded(EditorRun) /\ scratch1 # scratch0
     /\ new_hash # NoHash)
        => /\ Cardinality(Runs(EncryptRun)) = 1
           /\ Runs(EncryptRun) = { Len(spawned) }
           /\ Succeeded(EncryptRun) <=> result = Ok
           /\ result = Ok =>
                /\ backing # backing0
                /\ backing.kind = "armored"
                /\ backing.rcpts = Recipients
                /\ \A k \in Recipients :
                      decrypt_yields(backing, k) = Some(scratch1.content)

\* C2 witness: an edit changed the content, encrypt succeeded for a recipient
\* set holding the caller's key, and the file decrypts to the new content.
C2_Witness ==
    /\ pc = "exited"
    /\ EditorReturned
    /\ scratch1 # scratch0
    /\ result = Ok
    /\ backing0.kind = "armored"
    /\ Me \in Recipients
    /\ decrypt_yields(backing, Me) = Some(scratch1.content)

\* C3: when the invocation finds no backing file, decrypt hands out an empty
\* scratch file without running age or any other subprocess and never fails,
\* and values yields the empty mapping, not an error.
C3_MissingEnvironment ==
    (cmd # NoCommand /\ backing0 = NoFile)
        => /\ Runs(DecryptRun) = {}
           /\ result # NoResult /\ IsErr(result) => result.err # "AgeDecryptError"
           /\ pc \in { "checksum_before", "values", "export_raw" }
                => scratch = TempFile(<<>>) /\ spawned = << Run(GitRun, Exited(0)) >>
           /\ cmd.kind # "edit"
                => /\ result # NoResult /\ IsErr(result) => result.err # "ConfigParseError"
                   /\ pc \in { "exec", "export_values" }
                        => values_map = {} /\ spawned = << Run(GitRun, Exited(0)) >>

\* C3 witness: values of a missing environment returned the empty mapping to
\* run_command.
C3_Witness ==
    /\ pc = "exec"
    /\ cmd.kind = "run"
    /\ backing0 = NoFile
    /\ values_map = {}
    /\ Runs(DecryptRun) = {}

\* The checks the project declares, and the runs of the check loop: in a
\* check invocation every subprocess after the git lookup is a check.
ChecksDeclared == config.commands.some /\ config.commands.v.checks.some
StartDeclared == config.commands.some /\ config.commands.v.start.some
ShellDeclared == config.commands.some /\ config.commands.v.shell.some
DeclaredChecks == config.commands.v.checks.v
CheckRun(k) == spawned[k + 1]
ChecksRun == Len(spawned) - 1
ConfigLoaded == Succeeded(GitRun)
Finished == pc \in { "returned", "exited" }

\* The cause a failed run is reported with.
CauseOf(outcome) ==
    IF outcome = SpawnFailed THEN SpawnError ELSE FailedError(outcome.status, "None")

\* C4: when check number k fails (non-zero exit or spawn failure), it is the
\* last check started, every check before it was started in declaration
\* order and succeeded, and the check operation returns RunError naming
\* bash -ce <expression of check k> with the cause of that failure.
C4_ChecksFailFast ==
    (cmd.kind = "check" /\ ConfigLoaded /\ ChecksDeclared)
        => \A k \in 1..ChecksRun :
              /\ k <= Len(DeclaredChecks)
              /\ CheckRun(k).argv = << "bash", "-ce", DeclaredChecks[k].expr >>
              /\ CheckRun(k).outcome # Exited(0)
                    => /\ k = ChecksRun
                       /\ Finished
                       /\ result = RunError(<< "bash", "-ce", DeclaredChecks[k].expr >>,
                                            CauseOf(CheckRun(k).outcome))

\* C4 witness: of three declared checks the second failed; the third was
\* never started and the operation ended with the second check's error.
C4_Witness ==
    /\ pc = "exited"
    /\ cmd.kind = "check"
    /\ ChecksDeclared
    /\ Len(DeclaredChecks) = 3
    /\ ChecksRun = 2
    /\ CheckRun(1).outcome = Exited(0)
    /\ CheckRun(2).outcome = Exited(1)
    /\ result = RunError(<< "bash", "-ce", DeclaredChecks[2].expr >>, FailedError(1, "None"))
    /\ exit_code = 1

\* The invocation is `dev start` of a project that declares no
\* commands.start, or `dev check` of one that declares no commands.checks.
MissingKey ==
    IF cmd.kind = "start" /\ ~StartDeclared THEN Some("commands.start")
    ELSE IF cmd.kind = "check" /\ ~ChecksDeclared THEN Some("commands.checks")
    ELSE None

\* C5 as stated: such an invocation fails with ConfigMissing naming the key,
\* and no subprocess is spawned during the invocation.
C5_Original ==
    (Finished /\ ConfigLoaded /\ MissingKey.some)
        => /\ result = ConfigMissing(MissingKey.v)
           /\ spawned = <<>>

\* C5 amended: such an invocation fails with ConfigMissing naming exactly
\* the missing key, and spawns no subprocess other than the git lookup of
\* the repository root that precedes the loading of the project config; no
\* command is built or exec'd.
C5_MissingCommandConfig ==
    (ConfigLoaded /\ MissingKey.some)
        => /\ spawned = << Run(GitRun, Exited(0)) >>
           /\ process = NoProcess
           /\ Finished => result = ConfigMissing(MissingKey.v)
           /\ pc = "exited" => exit_code = 1

\* C5 witness: `dev start` with a commands section that has no start, and
\* `dev check` with no commands section at all, both ended in ConfigMissing.
C5_Witness ==
    /\ pc = "exited"
    /\ \/ /\ cmd.kind = "start"
          /\ config.commands.some
          /\ result = ConfigMissing("commands.start")
       \/ /\ cmd.kind = "check"
          /\ ~config.commands.some
          /\ result = ConfigMissing("commands.checks")

\* C6: the scratch file exists only while the operation that decrypted it is
\* at work on it; it is gone when values, export or edit has returned, on
\* success and on every failure, and before the process image is replaced.
C6_ScopedScratchFile ==
    scratch # NoFile
        => pc \in { "values", "export_raw", "checksum_before", "editor",
                    "checksum_after", "encrypt" }

\* C6 witness: the editor wrote plaintext to the scratch file and then
\* failed; the edit has returned and the scratch file is gone.
C6_Witness ==
    /\ pc = "returned"
    /\ IsErr(result)
    /\ result.err = "EditorError"
    /\ scratch1.kind = "file"
    /\ scratch1.content # <<>>
    /\ scratch = NoFile

C8_EditorResultMapping ==
    /\ \A i \in Runs(EditorRun) :
          LET o == spawned[i].outcome IN
          /\ o = Exited(0)
                => /\ pc = "checksum_after" \/ i < Len(spawned)
                   /\ IsErr(result) => result.err # "EditorError"
          /\ o # Exited(0)
                => /\ i = Len(spawned)
                   /\ Finished
                   /\ result = Err("EditorError", CauseOf(o))
                   /\ o # SpawnFailed => result.cause.status # 0
    /\ (IsErr(result) /\ result.err = "EditorError") => Runs(EditorRun) # {}

\* C8 witness: the shell could not start the editor (status 127) and edit
\* returned EditorError(FailedError) with that status.
C8_Witness ==
    /\ pc = "returned"
    /\ result = Err("EditorError", FailedError(127, "None"))
    /\ spawned[Len(spawned)] = Run(EditorRun, Exited(127))

\* The command line run_command was called with.
TargetCommandLine ==
    IF cmd.kind = "run" THEN << cmd.command >> \o cmd.args
    ELSE << "nix", "run", ".#dev.start" >>

RunOrStart == cmd.kind \in { "run", "start" }

\* C9 as stated: after a successful exec no step of the tool follows, and
\* whenever run_command returns it returns RunError naming the program and
\* its arguments with the spawn failure.
C9_Original ==
    /\ [](RunOrStart /\ Finished => result = RunError(TargetCommandLine, SpawnError))
    /\ [][pc = "replaced" => (inv' = inv + 1 /\ pc' = "from_env")]_vars

\* C9 amended: after a successful exec no step of the tool follows (the next
\* step is another process starting), and run_command never returns
\* success: it returns RunError naming the program followed by its
\* arguments in order, with the spawn failure, when exec was attempted and
\* failed, and GitError, AgeDecryptError or ConfigParseError when the
\* environment could not be prepared, in which case exec was not attempted.
C9_ReplacingExec ==
    /\ [](/\ pc = "replaced"
            => /\ RunOrStart
               /\ process.exec = "replaced"
               /\ result = NoResult
               /\ exit_code = -1
          /\ (RunOrStart /\ Finished)
            => /\ IsErr(result)
               /\ process.exec \in { "no", "failed" }
               /\ process.exec = "failed"
                    => result = RunError(TargetCommandLine, SpawnError)
               /\ process.exec = "no"
                    => result.err \in { "GitError", "AgeDecryptError", "ConfigParseError" })
    /\ [][pc = "replaced" => (inv' = inv + 1 /\ pc' = "from_env")]_vars

\* C9 witness: exec of `prog x y` failed and run_command returned RunError
\* naming prog, x, y.
C9_Witness ==
    /\ pc = "returned"
    /\ cmd.kind = "run"
    /\ process.exec = "failed"
    /\ Len(cmd.args) = 2
    /\ cmd.args[1] # cmd.args[2]
    /\ result = RunError(<< "prog" >> \o cmd.args, SpawnError)

\* Words joined by single spaces into one shell expression.
RECURSIVE JoinWords(_)
JoinWords(words) ==
    IF Len(words) = 0 THEN ""
    ELSE IF Len(words) = 1 THEN words[1]
    ELSE words[1] \o " " \o JoinWords(Tail(words))

Coerced(value) ==
    CASE value.t = "string" -> value.s
      [] value.t = "integer" -> ToDecimal(value.n)
      [] value.t = "boolean" -> (IF value.b THEN "true" ELSE "false")
      [] value.t = "table" -> json_to_string(value)

\* C11: when run_command has set the mapping on the target command, every
\* variable carries its string unchanged, its number or boolean as text, and
\* its nested table JSON-encoded.
C11_ExecStringCoercion ==
    process.exec # "no"
        => \A kv \in values_map :
              [name |-> kv.key, value |-> Coerced(kv.val)] \in process.env

\* C12: the environment of the exec'd target command is the inherited
\* environment with every key of the mapping set to the string run_command
\* made of its value: inherited variables not named by the mapping are kept
\* unchanged, a key that collides with an inherited name takes the mapping's
\* value, and nothing else is in the environment.
C12_ExecEnvironmentMerge ==
    process.exec # "no"
        => /\ \A kv \in values_map :
                 [name |-> kv.key, value |-> env_value(kv.val)] \in process.env
           /\ \A e \in Environ :
                 (\A kv \in values_map : kv.key # e.name) => e \in process.env
           /\ \A e \in process.env :
                 \/ e \in Environ /\ \A kv \in values_map : kv.key # e.name
                 \/ \E kv \in values_map :
                       e = [name |-> kv.key, value |-> env_value(kv.val)]
           /\ \A e1, e2 \in process.env : e1.name = e2.name => e1 = e2

\* C12 witness: the target command was exec'd with a mapping that sets A,
\* which the tool had inherited with another value, and leaves HOME alone.
C12_Witness ==
    /\ pc = "replaced"
    /\ \E kv \in values_map : kv.key = "A"
    /\ \E kv \in values_map : kv.key # "A"
    /\ [name |-> "A", value |-> "inherited"] \notin process.env
    /\ [name |-> "A", value |-> "x\ny"] \in process.env
    /\ [name |-> "HOME", value |-> "/home/me"] \in process.env

\* The keys of the model in ascending (byte) order, and the entries of a
\* mapping in that order.
KeyOrder == << "A", "B", "C", "K\nL", "T" >>
Rank(key) == CHOOSE i \in DOMAIN KeyOrder : KeyOrder[i] = key
Sorted(map) ==
    CHOOSE o \in Orders(map) :
        \A i, j \in DOMAIN o : i < j => Rank(o[i].key) < Rank(o[j].key)

\* C13: a JSON export that succeeded wrote the mapping pretty-printed with
\* its keys in sorted order at every nesting level, so the output is a
\* function of the decrypted content.
C13_JsonExportOrdering ==
    (cmd.kind = "export" /\ cmd.format = "json" /\ Finished /\ IsOk(result))
        => stdout = format_json(Sorted(toml_from_str(backing.plain).map))

\* The lines of a text: what stands between its newlines.
RECURSIVE SplitLines(_)
SplitLines(str) ==
    IF \E i \in 1..Len(str) : SubSeq(str, i, i) = "\n"
    THEN LET n == CHOOSE i \in 1..Len(str) :
                    /\ SubSeq(str, i, i) = "\n"
                    /\ \A j \in 1..(i - 1) : SubSeq(str, j, j) # "\n"
         IN << SubSeq(str, 1, n - 1) >> \o SplitLines(SubSeq(str, n + 1, Len(str)))
    ELSE << str >>

\* The lines standard output holds after the println! calls of `out`.
RECURSIVE OutputLines(_)
OutputLines(out) ==
    IF out = <<>> THEN <<>> ELSE SplitLines(Head(out)) \o OutputLines(Tail(out))

\* The line the Docker export is to write for a variable.
DockerLine(kv) ==
    kv.key \o "=" \o
    replace_newline(IF kv.val.t = "string" THEN kv.val.s ELSE json_to_string(kv.val))

\* C14: a Docker export that succeeded wrote exactly one line KEY=value per
\* variable and no other line: a string value as it is, a non-string value
\* JSON-encoded, every newline of a value replaced by a space.
C14_DockerExport ==
    (cmd.kind = "export" /\ cmd.format = "docker" /\ Finished /\ IsOk(result))
        => LET lines == OutputLines(stdout) IN
           /\ Len(lines) = Cardinality(values_map)
           /\ \A kv \in values_map : \E i \in DOMAIN lines : lines[i] = DockerLine(kv)
           /\ \A i \in DOMAIN lines : \E kv \in values_map : lines[i] = DockerLine(kv)

\* The typed error a failed run of a tool is turned into.
ErrorOf(argv) ==
    CASE argv = GitRun -> "GitError"
      [] argv = DecryptRun -> "AgeDecryptError"
      [] argv = EncryptRun -> "AgeEncryptError"
      [] argv = ChecksumRun -> "ChecksumError"
      [] argv = EditorRun -> "EditorError"
      [] OTHER -> "RunError"

FailedRuns == { i \in DOMAIN spawned : spawned[i].outcome # Exited(0) }

\* The invocation parsed the decrypted content (that of the backing file it
\* started with) and the parser rejected it.
ParseFailed ==
    /\ cmd.kind \in { "run", "start" } \/ (cmd.kind = "export" /\ cmd.format # "raw")
    /\ pc \in { "exec", "export_values", "replaced", "returned", "exited" }
    /\ FailedRuns = {}
    /\ Succeeded(DecryptRun)
    /\ IsErr(toml_from_str(backing0.plain))

ExecFailed == process.exec = "failed"

\* The dispatcher of cli.rs found no declaration of what it was to run.
ConfigMissingFailed ==
    Finished /\ ConfigLoaded /\ MissingKey.some /\ process = NoProcess

\* A step of the invocation has failed.
StepFailed == FailedRuns # {} \/ ParseFailed \/ ExecFailed \/ ConfigMissingFailed

\* The error reports on standard error.
Reports == SelectSeq(stderr_lines, LAMBDA l : "report" \in DOMAIN l)

RecipientLines(file) == IF file.kind = "file" THEN file.content ELSE <<>>

\* C16: the step of init that writes the recipient file leaves in it every
\* line it held before, followed by the collected keys, one per line.
C16_InitAppends ==
    [][(pc = "InitCommand" /\ pc' = "returned")
          => RecipientLines(developers') = RecipientLines(developers) \o cmd.stdin]_vars

\* The command lines run so far, in order.
Steps == [i \in DOMAIN spawned |-> spawned[i].argv]

\* The runs of a complete edit that re-encrypts, after the repository lookup:
\* decrypt (when there is a backing file), checksum, editor, checksum,
\* encrypt.
EditSteps ==
    << GitRun >> \o (IF exists(backing0) THEN << DecryptRun >> ELSE <<>>)
    \o << ChecksumRun, EditorRun, ChecksumRun, EncryptRun >>

\* The two ends of an edit all of whose steps succeeded.
Reencrypted ==
    /\ Steps = EditSteps
    /\ backing = AgeEncrypt(scratch1.content, developers, nonce)
Unchanged ==
    /\ Steps = SubSeq(EditSteps, 1, Len(EditSteps) - 1)
    /\ backing = backing0

\* C17: in an edit the steps are run in the order decrypt, checksum, editor,
\* checksum, encrypt, each at most once and only after the one before it
\* succeeded (a failed step is the last one); an edit all of whose steps
\* succeeded returns success and has ended either in Reencrypted or in
\* Unchanged, never both.
C17_EditProtocolOrder ==
    cmd.kind = "edit"
        => /\ Len(Steps) <= Len(EditSteps)
           /\ Steps = SubSeq(EditSteps, 1, Len(Steps))
           /\ \A i \in FailedRuns : i = Len(spawned)
           /\ (Finished /\ FailedRuns = {})
                => /\ IsOk(result)
                   /\ Reencrypted \/ Unchanged
                   /\ ~(Reencrypted /\ Unchanged)

\* C17 witness: an edit of an existing environment ran all five steps, ended
\* in Reencrypted and returned success.
C17_Witness ==
    /\ cmd.kind = "edit"
    /\ pc = "returned"
    /\ IsOk(result)
    /\ Len(spawned) = 6
    /\ FailedRuns = {}
    /\ Reencrypted
    /\ backing # backing0

\* C18: a check operation over a declared list of checks (the empty list
\* included) none of which failed has run every check exactly once, one
\* after the other in declaration order, each as bash -ce <expression>, and
\* returns success; while it runs, the checks run so far are the first ones
\* of the list, in order.
C18_ChecksOrderAndSuccess ==
    (cmd.kind = "check" /\ ChecksDeclared /\ FailedRuns = {})
        => /\ ChecksRun <= Len(DeclaredChecks)
           /\ \A k \in 1..ChecksRun :
                 CheckRun(k) = Run(<< "bash", "-ce", DeclaredChecks[k].expr >>, Exited(0))
           /\ pc = "check_loop" => check_i = ChecksRun + 1
           /\ Finished => IsOk(result) /\ ChecksRun = Len(DeclaredChecks)

\* C18 witness: three declared checks were run in declaration order, all
\* succeeded, and the operation returned success.
C18_Witness ==
    /\ cmd.kind = "check"
    /\ ChecksDeclared
    /\ Len(DeclaredChecks) = 3
    /\ pc = "returned"
    /\ IsOk(result)
    /\ ChecksRun = 3
    /\ \A k \in 1..3 : CheckRun(k).argv[3] = DeclaredChecks[k].expr

\* The runs of decrypt, checksum and editor that failed.
AbortingRuns ==
    { i \in FailedRuns : spawned[i].argv \in { DecryptRun, ChecksumRun, EditorRun } }

\* C19: when decrypt, a checksum or the editor fails during an edit, the
\* edit has returned the error of that step (AgeDecryptError, ChecksumError
\* or EditorError, with the spawn failure or the exit status), the
\* encryption tool was not run, and the backing file is what it was when
\* the edit began, whatever the editor wrote to the scratch file.
C19_AbortedEdit ==
    cmd.kind = "edit"
        => \A i \in AbortingRuns :
              /\ Finished
              /\ IsErr(result)
              /\ result.err = ErrorOf(spawned[i].argv)
              /\ result.err \in { "AgeDecryptError", "ChecksumError", "EditorError" }
              /\ result.cause.kind =
                    (IF spawned[i].outcome = SpawnFailed THEN "SpawnError" ELSE "FailedError")
              /\ Runs(EncryptRun) = {}
              /\ backing = backing0

\* C19 witness: the editor changed the scratch content of an existing
\* environment, the second checksum then failed, and edit returned
\* ChecksumError with the backing file as it was.
C19_Witness ==
    /\ cmd.kind = "edit"
    /\ pc = "returned"
    /\ exists(backing0)
    /\ Len(spawned) = 5
    /\ AbortingRuns = { 5 }
    /\ scratch1 # scratch0
    /\ result = Err("ChecksumError", FailedError(1, "Some"))
    /\ backing = backing0

\* A content the TOML parser rejects: a line that is no `key = value`, or a
\* key given twice.
Malformed(content) ==
    \/ \E i \in DOMAIN content : ~toml_line(content[i]).some
    \/ \E i, j \in DOMAIN content :
          /\ i # j
          /\ toml_line(content[i]).some /\ toml_line(content[j]).some
          /\ toml_line(content[i]).v.key = toml_line(content[j]).v.key

\* C20: when run_command has come to exec the target command of run or
\* start, the repository lookup and the decryption had succeeded, the
\* decrypted content was well-formed, and every variable of that content is
\* in the target command's environment; after a failed decryption
\* (AgeDecryptError) or on malformed content (ConfigParseError) exec was not
\* attempted.
C20_NoExecWithPartialEnvironment ==
    /\ process.exec # "no"
          => /\ RunOrStart
             /\ FailedRuns = {}
             /\ exists(backing0) => Succeeded(DecryptRun)
             /\ LET content == IF exists(backing0) THEN backing0.plain ELSE <<>> IN
                 /\ ~Malformed(content)
                 /\ \A i \in DOMAIN content :
                       [name |-> toml_line(content[i]).v.key,
                        value |-> env_value(toml_line(content[i]).v.val)] \in process.env
    /\ (RunOrStart /\ IsErr(result)
            /\ result.err \in { "AgeDecryptError", "ConfigParseError" })
          => process.exec = "no" /\ pc # "replaced"
    /\ (RunOrStart /\ Succeeded(DecryptRun) /\ Malformed(backing0.plain)
            /\ pc \notin { "from_env", "decrypt", "values" })
          => Finished /\ IsErr(result) /\ result.err = "ConfigParseError"

\* C20 witness: the target command replaced the tool after a decryption
\* that succeeded, with the two variables of the content in its environment.
C20_Witness ==
    /\ pc = "replaced"
    /\ Succeeded(DecryptRun)
    /\ Cardinality(values_map) = 2
    /\ \A kv \in values_map : \E e \in process.env : e.name = kv.key

\* The operations that only read the store.
ReadOnlyCommand(c) == c.kind \in { "run", "start", "check", "export" }

\* C21: an invocation of export, run, start or check never runs the
\* encryption tool and no step of it creates, changes or removes the
\* backing file or the recipient file, whether it succeeds or fails; a step
\* that changes the backing file belongs to an edit, and a step that
\* changes the recipient file to an init.
C21_ReadOnlyOperations ==
    /\ [](ReadOnlyCommand(cmd) => (Runs(EncryptRun) = {} /\ backing = backing0))
    /\ [][ReadOnlyCommand(cmd') => (backing' = backing /\ developers' = developers)]_vars
    /\ [][backing' # backing => cmd'.kind = "edit"]_vars
    /\ [][developers' # developers => cmd'.kind = "init"]_vars

\* C21 witness: after an edit had written the backing file, a run decrypted
\* it, failed to exec its target command and returned, with the file as the
\* edit had left it.
C21_Witness ==
    /\ inv = 2
    /\ cmd.kind = "run"
    /\ pc = "returned"
    /\ process.exec = "failed"
    /\ Succeeded(DecryptRun)
    /\ backing.kind = "armored"
    /\ backing.nonce = 1
    /\ backing = backing0

\* An edit of an environment that has no backing file, in which the editor
\* ran, exited with 0 and left the empty scratch file as it was.
MissingUnchangedEdit ==
    /\ cmd.kind = "edit"
    /\ ~exists(backing0)
    /\ Succeeded(EditorRun)
    /\ scratch0 = TempFile(<<>>)
    /\ scratch1 = scratch0

\* C22 as stated: such an edit succeeds, runs neither the decryption nor
\* the encryption tool, and leaves the backing file absent.
C22_Original ==
    (MissingUnchangedEdit /\ Finished)
        => /\ IsOk(result)
           /\ Runs(DecryptRun) = {}
           /\ Runs(EncryptRun) = {}
           /\ ~exists(backing)

\* C22 amended: such an edit runs neither the decryption nor the encryption
\* tool and leaves the backing file absent; it succeeds when the checksum
\* after the editor succeeds, and returns ChecksumError when that checksum
\* fails.
C22_EditOfMissingEnvironment ==
    /\ (cmd.kind = "edit" /\ ~exists(backing0) /\ Runs(EncryptRun) = {})
          => Runs(DecryptRun) = {} /\ ~exists(backing)
    /\ MissingUnchangedEdit
          => /\ Runs(DecryptRun) = {}
             /\ Runs(EncryptRun) = {}
             /\ ~exists(backing)
             /\ pc \in { "checksum_after", "returned", "exited" }
             /\ Finished
                  => IF FailedRuns = {}
                     THEN IsOk(result)
                     ELSE /\ FailedRuns = { Len(spawned) }
                          /\ spawned[Len(spawned)].argv = ChecksumRun
                          /\ IsErr(result) /\ result.err = "ChecksumError"

\* C22 witness: the edit of a missing environment returned success after
\* the repository lookup, two checksums and the editor, which changed
\* nothing; no backing file exists.
C22_Witness ==
    /\ MissingUnchangedEdit
    /\ pc = "returned"
    /\ IsOk(result)
    /\ Steps = << GitRun, ChecksumRun, EditorRun, ChecksumRun >>
    /\ backing = NoFile

====
